---- MODULE Spec2Model ----
(***************************************************************************)
(* amlight/coloring: the Main NApp of src/main.py.                         *)
(*                                                                         *)
(* self.switches maps a DPID to {'color', 'neighbors', 'flows'}.  Every    *)
(* topology event runs update_colors(links): records are created or their  *)
(* neighbors reset (lines 59-66), the links are added to the neighbor sets *)
(* (lines 68-76), and a flow is built, recorded and posted to the flow     *)
(* manager for every neighbor that has no entry in 'flows' (lines 80-109). *)
(*                                                                         *)
(* A string of colon-separated components ('00:...:01:1') is modelled as   *)
(* the sequence of its components, each octet as its integer value.        *)
(***************************************************************************)
EXTENDS Integers, Sequences, FiniteSets, TLC

\* ------------------------------------------------------------ universe

\* Three datapath ids; S3 has a non-zero octet in the prefix that the
\* color derivation discards.
S1 == <<0, 0, 0, 0, 0, 0, 0, 1>>
S2 == <<0, 0, 0, 0, 0, 0, 0, 2>>
S3 == <<0, 1, 0, 0, 0, 0, 1, 0>>
DPIDs == {S1, S2, S3}

\* An interface id is the DPID followed by the port number.
Iface(dpid, port) == Append(dpid, port)

\* The links a topology event may report: two links between distinct
\* switches, a link with both ends on S1, and a link whose source is a bare
\* DPID (no port component).
LinkUniverse ==
    { [source |-> Iface(S1, 1), target |-> Iface(S2, 1)],
      [source |-> Iface(S1, 2), target |-> Iface(S3, 1)],
      [source |-> Iface(S1, 3), target |-> Iface(S1, 4)],
      [source |-> S1,           target |-> Iface(S2, 1)] }

\* Longest list of links in one event; a list names a link at most once.
MaxLinks == 2

RECURSIVE ListsUpTo(_)
ListsUpTo(n) ==
    IF n = 0 THEN { <<>> }
    ELSE LET shorter == ListsUpTo(n - 1)
         IN  shorter \cup
             UNION { { Append(l, x) : x \in LinkUniverse \ { l[i] : i \in DOMAIN l } } :
                     l \in { s \in shorter : Len(s) = n - 1 } }

LinkLists == ListsUpTo(MaxLinks)

\* The controller's registry at the time of an event: the values of
\* controller.switches, in the order the dict yields them.
Registries == { <<S1, S2>>, <<S1, S2, S3>>, <<S2, S3>> }

\* Status codes the flow manager answers with.
StatusCodes == {200, 404}

\* How many install requests the flow manager lets fail (an error status or
\* a transport error) over a run.
MaxFailures == 1

Threads == {1, 2}

\* ------------------------------------------------------------ color codec

\* The hex digits of a DPID with the colons removed: two per octet.
RECURSIVE HexDigits(_)
HexDigits(octets) ==
    IF octets = <<>> THEN <<>>
    ELSE <<Head(octets) \div 16, Head(octets) % 16>> \o HexDigits(Tail(octets))

\* int(digits, 16)
RECURSIVE ParseHex(_)
ParseHex(digits) ==
    IF digits = <<>> THEN 0
    ELSE 16 * ParseHex(SubSeq(digits, 1, Len(digits) - 1)) + digits[Len(digits)]

\* color = int(switch.dpid.replace(':', '')[4:], 16)
ColorOf(dpid) ==
    LET digits == HexDigits(dpid)
    IN  ParseHex(SubSeq(digits, 5, Len(digits)))

HexChars == <<"0", "1", "2", "3", "4", "5", "6", "7",
              "8", "9", "a", "b", "c", "d", "e", "f">>

DecChars == <<"0", "1", "2", "3", "4", "5", "6", "7", "8", "9">>

\* Mutant of PackBytes: the bytes are packed little-endian ('<' for '!').
RECURSIVE PackBytesLittle(_, _)
PackBytesLittle(c, n) ==
    IF n = 0 THEN <<>> ELSE <<c % 256>> \o PackBytesLittle(c \div 256, n - 1)

\* struct.pack of the low n bytes of c, big-endian (the mask keeps exactly
\* the bytes that are packed).
RECURSIVE PackBytes(_, _)
PackBytes(c, n) ==
    IF n = 0 THEN <<>> ELSE Append(PackBytes(c \div 256, n - 1), c % 256)

\* Mutant of Hex02: '%x' for '%02x', no leading zero.
HexUnpadded(b) ==
    IF b < 16 THEN <<HexChars[b + 1]>>
    ELSE <<HexChars[(b \div 16) + 1], HexChars[(b % 16) + 1]>>

\* '%02x' % b
Hex02(b) == <<HexChars[(b \div 16) + 1], HexChars[(b % 16) + 1]>>

\* str(b)
RECURSIVE DecStr(_)
DecStr(b) ==
    IF b < 10 THEN <<DecChars[b + 1]>>
    ELSE Append(DecStr(b \div 10), DecChars[(b % 10) + 1])

\* sep.join(parts)
RECURSIVE Join(_, _)
Join(sep, parts) ==
    IF parts = <<>> THEN <<>>
    ELSE IF Len(parts) = 1 THEN parts[1]
    ELSE parts[1] \o <<sep>> \o Join(sep, Tail(parts))

\* Mutant of Replace00: every '0' is replaced, not every '00'.
RECURSIVE Replace0(_)
Replace0(str) ==
    IF str = <<>> THEN str
    ELSE <<IF Head(str) = "0" THEN "e" ELSE Head(str)>> \o Replace0(Tail(str))

\* str.replace('00', 'ee'): left to right, non-overlapping, on the string.
RECURSIVE Replace00(_)
Replace00(str) ==
    IF Len(str) < 2 THEN str
    ELSE IF str[1] = "0" /\ str[2] = "0"
         THEN <<"e", "e">> \o Replace00(SubSeq(str, 3, Len(str)))
         ELSE <<str[1]>> \o Replace00(Tail(str))

\* The value color_to_field returns when no branch matches.
None == "None"

\* color_to_field(color, field)
ColorToField(color, field) ==
    IF field \in {"dl_src", "dl_dst"}
    THEN LET int_mac == SubSeq(PackBytes(color, 8), 3, 8)
         IN  Replace00(Join(":", [i \in 1..6 |-> Hex02(int_mac[i])]))
    ELSE IF field \in {"nw_src", "nw_dst"}
    THEN LET int_ip == PackBytes(color, 4)
         IN  Join(".", [i \in 1..4 |-> DecStr(int_ip[i])])
    ELSE IF field \in {"in_port", "dl_vlan", "tp_src", "tp_dst"}
    THEN color % 65536
    ELSE IF field \in {"nw_tos", "nw_proto"}
    THEN color % 256
    ELSE None

\* The type of the value color_to_field returns: a str where it joins the
\* packed bytes, an int where it returns the masked color, and None where
\* the function ends without a return statement.
ReturnType(field) ==
    IF field \in {"dl_src", "dl_dst", "nw_src", "nw_dst"} THEN "str"
    ELSE IF field \in {"in_port", "dl_vlan", "tp_src", "tp_dst",
                       "nw_tos", "nw_proto"} THEN "int"
    ELSE "NoneType"

\* settings.COLOR_FIELD; color_to_field's default field.
COLOR_FIELD == "dl_src"

\* Mutant of FlowFor: the color is encoded for another field than the one
\* it is stored under.
FlowForOtherField(neighbor, color) ==
    [ switch      |-> neighbor,
      match_field |-> COLOR_FIELD,
      match_value |-> ColorToField(color, "nw_src"),
      priority    |-> 50000,
      out_port    |-> 65533 ]

\* The flow built for a neighbor (flow_dict and Flow10.from_dict): the
\* color field of the match, the priority and the output action.
FlowFor(neighbor, color) ==
    [ switch      |-> neighbor,
      match_field |-> COLOR_FIELD,
      match_value |-> ColorToField(color, COLOR_FIELD),
      priority    |-> 50000,
      out_port    |-> 65533 ]

\* ------------------------------------------------------------ state

VARIABLES
    controller,    \* controller.switches: the DPIDs the controller knows, in dict order
    keys,          \* the keys of self.switches, in insertion order
    switches,      \* self.switches: DPID -> [color, neighbors, flows]
    pc,            \* per handler thread: where it is in update_colors
    links,         \* per thread: the links argument of its pass
    li,            \* per thread: how many links the loop of line 68 has consumed
    idx,           \* per thread: position of the dict iterator of line 80
    dictLen,       \* per thread: len(self.switches) when that iterator was made
    todoN,         \* per thread: neighbors the set iterator of line 82 has left
    setLive,       \* per thread: the iterated set is still the record's set
    setChanged,    \* per thread: the iterated set grew since the iterator was made
    nb,            \* per thread: the loop variable neighbor
    result,        \* per thread: how its last pass ended
    failures,      \* how many install requests have failed so far
    acked,         \* history: pairs <<switch, neighbor>> acknowledged with 2xx
    sent,          \* history, per thread: outcome of each request of its pass
    resent,        \* history: pairs posted again after a 2xx acknowledgment
    failedPrev,    \* history: pairs whose request failed in the previous pass
    pending,       \* history: pairs lacking a flow when the install loop began
    repeat,        \* history: the pass got the input of the pass before it
    lost,          \* history: the pairs <<a, b>> of known switches, b a neighbor of
                   \*          a, whose link the pass no longer reports -> the 'flows'
                   \*          of a and of b before the pass
    napp,          \* where the NApp is in its life: in setup, running, or failed
    color,         \* color_to_field: the color argument of a call
    other,         \* color_to_field: the color argument of a second call
    field,         \* color_to_field: the field argument of both calls
    returned       \* color_to_field: what the two calls returned

vars == << controller, keys, switches, pc, links, li, idx, dictLen, todoN,
           setLive, setChanged, nb, result, failures, acked, sent, resent, failedPrev,
           pending, repeat, lost, napp, color, other, field, returned >>

histVars == << acked, sent, resent, failedPrev, pending, repeat, lost >>

codecVars == << color, other, field, returned >>

\* The empty dict.
EmptyDict == [x \in {} |-> x]

\* dict[key] = value
DictSet(dict, key, value) ==
    [x \in DOMAIN dict \cup {key} |-> IF x = key THEN value ELSE dict[x]]

NoResult == [exc |-> "none", line |-> 0]
Returned == [exc |-> "returned", line |-> 109]

\* No call of color_to_field has returned.
NotCalled == [type |-> "nothing"]

\* The codec is not under test: one call, of the configured field, not made.
CodecIdle ==
    /\ color = 0
    /\ other = 0
    /\ field = COLOR_FIELD
    /\ returned = NotCalled

\* setup, line 32: self.switches = {}, no handler running.
EmptyTracker ==
    /\ controller = <<>>
    /\ keys = <<>>
    /\ switches = EmptyDict
    /\ pc = [t \in Threads |-> "idle"]
    /\ links = [t \in Threads |-> <<>>]
    /\ li = [t \in Threads |-> 0]
    /\ idx = [t \in Threads |-> 0]
    /\ dictLen = [t \in Threads |-> 0]
    /\ todoN = [t \in Threads |-> {}]
    /\ setLive = [t \in Threads |-> FALSE]
    /\ setChanged = [t \in Threads |-> FALSE]
    /\ nb = [t \in Threads |-> S1]
    /\ result = [t \in Threads |-> NoResult]
    /\ failures = 0
    /\ acked = {}
    /\ sent = [t \in Threads |-> EmptyDict]
    /\ resent = {}
    /\ failedPrev = {}
    /\ pending = {}
    /\ repeat = FALSE
    /\ lost = EmptyDict

\* The NApp is running with an empty tracker: setup has returned after
\* execute found no switch and no link.
Init ==
    /\ EmptyTracker
    /\ napp = "running"
    /\ CodecIdle

\* ------------------------------------------------------------ helpers

Known(dpid) == dpid \in DOMAIN switches

\* The record the dict iterator of thread t is at.
Cur(t) == keys[idx[t]]

\* Thread t is inside the loop over the neighbors of Cur(t).
Iterating(t) == pc[t] \in {"neighbors", "post"}

\* The DPID pairs a list of links connects (both directions), for the
\* links whose two endpoints have the 9 components of an interface id.
Peers(ls) ==
    UNION { { <<SubSeq(ls[i].source, 1, 8), SubSeq(ls[i].target, 1, 8)>>,
              <<SubSeq(ls[i].target, 1, 8), SubSeq(ls[i].source, 1, 8)>> } :
            i \in { j \in 1..Len(ls) :
                      Len(ls[j].source) >= 9 /\ Len(ls[j].target) >= 9 } }

\* The pairs with a neighbor that has no entry in 'flows'.
PendingPairs ==
    { p \in (DOMAIN switches) \X DPIDs :
        /\ p[2] \in switches[p[1]].neighbors
        /\ p[2] \notin DOMAIN switches[p[1]].flows }

\* The pass of thread t ends: the handler returns, or an exception leaves
\* it.  The links argument is kept only when the history is audited.  A pass
\* that execute started ends setup too (lines 33, 41): setup returns when
\* update_colors returns, and an exception of update_colors leaves setup.
Finish(t, how, audit) ==
    /\ napp' = IF napp # "executing" THEN napp
               ELSE IF how = Returned THEN "running" ELSE "failed"
    /\ pc' = [pc EXCEPT ![t] = "idle"]
    /\ links' = IF audit THEN links ELSE [links EXCEPT ![t] = <<>>]
    /\ result' = [result EXCEPT ![t] = how]
    /\ todoN' = [todoN EXCEPT ![t] = {}]
    /\ setLive' = [setLive EXCEPT ![t] = FALSE]
    /\ li' = [li EXCEPT ![t] = 0]
    /\ idx' = [idx EXCEPT ![t] = 0]
    /\ dictLen' = [dictLen EXCEPT ![t] = 0]
    /\ nb' = [nb EXCEPT ![t] = S1]

\* ------------------------------------------------------------ update_colors

\* A record as line 62 creates it.
NewRecord(dpid) == [color |-> ColorOf(dpid), neighbors |-> {}, flows |-> EmptyDict]

\* Mutant of ResetRecord: the record is made anew, its 'flows' emptied.
ResetRecordAnew(dpid, rec) == [rec EXCEPT !.neighbors = {}, !.flows = EmptyDict]

\* Mutant of ResetRecord: the color is derived again, from the wrong slice
\* of the DPID ([:4] for [4:]).
ResetRecordRecolor(dpid, rec) ==
    [rec EXCEPT !.neighbors = {},
                !.color = ParseHex(SubSeq(HexDigits(dpid), 1, 4))]

\* Mutant of ResetRecord: the neighbors are left as they are.
ResetRecordKeep(dpid, rec) == rec

\* Line 66: an existing record gets a fresh, empty neighbors set.
ResetRecord(dpid, rec) == [rec EXCEPT !.neighbors = {}]

\* The elements of a sequence.
Range(seq) == { seq[i] : i \in DOMAIN seq }

\* Lines 59-66: self.switches after the loop over the registry reg.
Reconciled(reg) ==
    [d \in DOMAIN switches \cup Range(reg) |->
        IF d \in DOMAIN switches
        THEN IF d \in Range(reg) THEN ResetRecord(d, switches[d]) ELSE switches[d]
        ELSE NewRecord(d)]

\* Lines 60-64: the registry's DPIDs without record, in the registry's order.
Fresh(reg) == SelectSeq(reg, LAMBDA d : d \notin DOMAIN switches)

\* update_colors(ls) up to the end of its first loop (lines 59-66), while
\* the controller knows the switches reg.
BeginPass(t, reg, ls, audit) ==
    /\ controller' = reg
    /\ keys' = keys \o Fresh(reg)
    /\ switches' = Reconciled(reg)
    /\ links' = [links EXCEPT ![t] = ls]
    /\ setLive' = [u \in Threads |->
                     setLive[u] /\ ~(Iterating(u) /\ Cur(u) \in Range(reg))]
    /\ failedPrev' = { p \in DOMAIN sent[t] : sent[t][p] # "acked" }
    /\ sent' = [sent EXCEPT ![t] = EmptyDict]
    /\ repeat' = ( /\ audit /\ result[t] # NoResult
                   /\ reg = controller /\ ls = links[t] )
    /\ lost' = [p \in { q \in (Range(reg) \X Range(reg)) \ Peers(ls) :
                          /\ Known(q[1]) /\ Known(q[2])
                          /\ q[2] \in switches[q[1]].neighbors } |->
                  [a |-> switches[p[1]].flows, b |-> switches[p[2]].flows]]
    /\ pc' = [pc EXCEPT ![t] = "links"]
    /\ li' = [li EXCEPT ![t] = 0]
    /\ result' = [result EXCEPT ![t] = NoResult]
    /\ pending' = {}
    /\ UNCHANGED << idx, dictLen, todoN, setChanged, nb, failures, acked, resent,
                    codecVars >>

\* topology_updated (lines 43-49): a topology event arrives with the links
\* ls while the controller knows the switches reg, and the handler calls
\* update_colors.  Events reach the NApp once it is running.
TopologyUpdated(t, regs, lists, audit) ==
    /\ pc[t] = "idle"
    /\ napp = "running"
    /\ \E reg \in regs, ls \in lists : BeginPass(t, reg, ls, audit)
    /\ UNCHANGED napp

\* The neighbor sets after neighbors.add(peer) on the record of dpid.
AddNeighbor(sw, dpid, peer) ==
    [sw EXCEPT ![dpid].neighbors = @ \cup {peer}]

\* The set iterators that the growth from sw to sw2 invalidates.
Invalidated(sw, sw2) ==
    [u \in Threads |->
        \/ setChanged[u]
        \/ /\ Iterating(u) /\ setLive[u]
           /\ sw2[Cur(u)].neighbors # sw[Cur(u)].neighbors]

\* Mutant of TooShort: 'and' for 'or'.
TooShortBoth(source, target) == Len(source) < 9 /\ Len(target) < 9

\* Line 71: an endpoint has fewer components than an interface id.
TooShort(source, target) == Len(source) < 9 \/ Len(target) < 9

\* Lines 68-76 for one link; after the last link the dict iterator of
\* line 80 is made.  The list of links is not read after the loop: it is
\* kept only when the history is audited.
ProcessLink(t, audit) ==
    /\ pc[t] = "links"
    /\ IF li[t] = Len(links[t])
       THEN /\ pc' = [pc EXCEPT ![t] = "switches"]
            /\ idx' = [idx EXCEPT ![t] = 0]
            /\ dictLen' = [dictLen EXCEPT ![t] = Len(keys)]
            /\ pending' = IF audit THEN PendingPairs ELSE pending
            /\ links' = IF audit THEN links ELSE [links EXCEPT ![t] = <<>>]
            /\ li' = IF audit THEN li ELSE [li EXCEPT ![t] = 0]
            /\ UNCHANGED << switches, result, todoN, setLive, setChanged, nb,
                            napp >>
       ELSE LET link == links[t][li[t] + 1]
                source == link.source
                target == link.target
                dpid_source == SubSeq(source, 1, 8)
                dpid_target == SubSeq(target, 1, 8)
                one == AddNeighbor(switches, dpid_source, dpid_target)
                both == AddNeighbor(one, dpid_target, dpid_source)
            IN  IF TooShort(source, target)
                THEN /\ li' = [li EXCEPT ![t] = @ + 1]
                     /\ UNCHANGED << switches, links, pc, result, todoN, setLive,
                                     setChanged, idx, dictLen, nb, pending, napp >>
                ELSE IF ~Known(dpid_source)
                THEN /\ Finish(t, [exc |-> "KeyError", line |-> 75], audit)
                     /\ UNCHANGED << switches, setChanged, pending >>
                ELSE IF ~Known(dpid_target)
                THEN /\ switches' = one
                     /\ setChanged' = Invalidated(switches, one)
                     /\ Finish(t, [exc |-> "KeyError", line |-> 76], audit)
                     /\ UNCHANGED pending
                ELSE /\ switches' = both
                     /\ setChanged' = Invalidated(switches, both)
                     /\ li' = [li EXCEPT ![t] = @ + 1]
                     /\ UNCHANGED << links, pc, result, todoN, setLive, idx,
                                     dictLen, nb, pending, napp >>
    /\ UNCHANGED << controller, keys, failures, acked, sent, resent,
                    failedPrev, repeat, lost, codecVars >>

\* Line 80: the dict iterator's next().  It raises when the dict changed
\* size since the iterator was made, ends the pass when it is exhausted,
\* and otherwise line 82 makes the iterator over the record's neighbors.
NextSwitch(t, audit) ==
    /\ pc[t] = "switches"
    /\ IF Len(keys) # dictLen[t]
       THEN /\ Finish(t, [exc |-> "RuntimeError", line |-> 80], audit)
            /\ UNCHANGED setChanged
       ELSE IF idx[t] = Len(keys)
       THEN /\ Finish(t, Returned, audit)
            /\ UNCHANGED setChanged
       ELSE /\ idx' = [idx EXCEPT ![t] = @ + 1]
            /\ todoN' = [todoN EXCEPT ![t] = switches[keys[idx[t] + 1]].neighbors]
            /\ setLive' = [setLive EXCEPT ![t] = TRUE]
            /\ setChanged' = [setChanged EXCEPT ![t] = FALSE]
            /\ pc' = [pc EXCEPT ![t] = "neighbors"]
            /\ UNCHANGED << links, li, dictLen, nb, result, napp >>
    /\ UNCHANGED << controller, keys, switches, failures, acked, sent,
                    resent, failedPrev, pending, repeat, lost, codecVars >>

\* Line 104: the flow is recorded in the record's 'flows'.
RecordFlow(sw, dpid, neighbor, flow) ==
    [sw EXCEPT ![dpid].flows = DictSet(@, neighbor, flow)]

\* Lines 82-104: the set iterator's next() and the test of 'flows'; for a
\* neighbor without entry the flow is built from the neighbor's color and
\* recorded.  Reading the color of a DPID without record raises.
NextNeighbor(t, audit) ==
    /\ pc[t] = "neighbors"
    /\ IF setChanged[t]
       THEN /\ Finish(t, [exc |-> "RuntimeError", line |-> 82], audit)
            /\ setChanged' = [setChanged EXCEPT ![t] = FALSE]
            /\ UNCHANGED switches
       ELSE IF todoN[t] = {}
       THEN /\ pc' = [pc EXCEPT ![t] = "switches"]
            /\ setLive' = [setLive EXCEPT ![t] = FALSE]
            /\ UNCHANGED << switches, links, li, idx, dictLen, todoN,
                            setChanged, nb, result, napp >>
       ELSE \E neighbor \in todoN[t] :
               IF neighbor \in DOMAIN switches[Cur(t)].flows
               THEN /\ todoN' = [todoN EXCEPT ![t] = @ \ {neighbor}]
                    /\ UNCHANGED << switches, links, pc, li, idx, dictLen,
                                    setLive, setChanged, nb, result, napp >>
               ELSE IF ~Known(neighbor)
               THEN /\ Finish(t, [exc |-> "KeyError", line |-> 97], audit)
                    /\ UNCHANGED << switches, setChanged >>
               ELSE /\ todoN' = [todoN EXCEPT ![t] = @ \ {neighbor}]
                    /\ switches' = RecordFlow(switches, Cur(t), neighbor,
                                              FlowFor(neighbor,
                                                      switches[neighbor].color))
                    /\ nb' = [nb EXCEPT ![t] = neighbor]
                    /\ pc' = [pc EXCEPT ![t] = "post"]
                    /\ UNCHANGED << links, li, idx, dictLen, setLive,
                                    setChanged, result, napp >>
    /\ UNCHANGED << controller, keys, failures, histVars, codecVars >>

\* returned.status_code // 100 != 2
IsError(status_code) == status_code \div 100 # 2

\* Lines 105-109: the request is posted to the flow manager, which answers
\* with a status code, or the call raises a transport error.
PostFlow(t, audit) ==
    /\ pc[t] = "post"
    /\ LET pair == <<Cur(t), nb[t]>>
       IN  /\ resent' = IF pair \in acked THEN resent \cup {pair} ELSE resent
           /\ \/ \E status_code \in StatusCodes :
                    /\ IsError(status_code) => failures < MaxFailures
                    /\ failures' = IF IsError(status_code) THEN failures + 1
                                   ELSE failures
                    /\ sent' = IF ~audit THEN sent
                               ELSE [sent EXCEPT ![t] =
                                       DictSet(@, pair, IF IsError(status_code)
                                                        THEN "rejected" ELSE "acked")]
                    /\ acked' = IF IsError(status_code) THEN acked
                                ELSE acked \cup {pair}
                    /\ pc' = [pc EXCEPT ![t] = "neighbors"]
                    /\ UNCHANGED << links, li, idx, dictLen, todoN, setLive, nb,
                                    result, napp >>
              \/ /\ failures < MaxFailures
                 /\ failures' = failures + 1
                 /\ sent' = IF ~audit THEN sent
                            ELSE [sent EXCEPT ![t] = DictSet(@, pair, "error")]
                 /\ Finish(t, [exc |-> "ConnectionError", line |-> 105], audit)
                 /\ UNCHANGED acked
    /\ UNCHANGED << controller, keys, switches, setChanged, failedPrev,
                    pending, repeat, lost, codecVars >>

\* setup (lines 24-33) calls execute (lines 35-41) after it has made the
\* empty tracker: the topology is fetched with requests.get, and
\* update_colors runs on the links of the answer.  When the topology source
\* is unavailable requests.get raises; nothing catches the exception in
\* execute or in setup.
Execute(regs, lists, audit) ==
    /\ napp = "setup"
    /\ pc[1] = "idle"
    /\ \/ /\ napp' = "failed"
          /\ result' = [result EXCEPT ![1] =
                           [exc |-> "ConnectionError", line |-> 39]]
          /\ UNCHANGED << controller, keys, switches, pc, links, li, idx,
                          dictLen, todoN, setLive, setChanged, nb, failures,
                          histVars, codecVars >>
       \/ /\ napp' = "executing"
          /\ \E reg \in regs, ls \in lists : BeginPass(1, reg, ls, audit)

\* ------------------------------------------------------------ specifications

\* The handler thread runs one pass after the other.
Next ==
    \/ TopologyUpdated(1, Registries, LinkLists, FALSE)
    \/ ProcessLink(1, FALSE)
    \/ NextSwitch(1, FALSE)
    \/ NextNeighbor(1, FALSE)
    \/ PostFlow(1, FALSE)

Spec == Init /\ [][Next]_vars

\* The same, with the history of each pass kept: the requests it posted,
\* the pairs that were pending, the failures of the pass before it.
NextAudit ==
    \/ TopologyUpdated(1, Registries, LinkLists, TRUE)
    \/ ProcessLink(1, TRUE)
    \/ NextSwitch(1, TRUE)
    \/ NextNeighbor(1, TRUE)
    \/ PostFlow(1, TRUE)

SpecAudit == Init /\ [][NextAudit]_vars

\* The NApp from its loading on: setup, then one pass after the other.
InitStart ==
    /\ EmptyTracker
    /\ napp = "setup"
    /\ CodecIdle

NextStart ==
    \/ Execute(Registries, LinkLists, FALSE)
    \/ TopologyUpdated(1, Registries, LinkLists, FALSE)
    \/ ProcessLink(1, FALSE)
    \/ NextSwitch(1, FALSE)
    \/ NextNeighbor(1, FALSE)
    \/ PostFlow(1, FALSE)

SpecStart == InitStart /\ [][NextStart]_vars

\* The field names color_to_field is called with: those it tells apart, and
\* two match fields it has no branch for.
Fields ==
    { "dl_src", "dl_dst", "nw_src", "nw_dst", "in_port", "dl_vlan", "tp_src",
      "tp_dst", "nw_tos", "nw_proto", "dl_type", "nw_ecn" }

\* The colors color_to_field is called with: 0 and 0xee, the test's 300,
\* 0x1ff, 0xee0, 0x1000, 0xeeee, 0x10000, 0x10300, 0xee00ee, 10.0.0.1 and
\* the largest 31-bit color.
Colors ==
    { 0, 1, 238, 300, 511, 3808, 4096, 61166, 65536, 66304, 15597806,
      167772161, 2147483647 }

\* color_to_field(color, field) and color_to_field(other, field) are called
\* and return.
CallColorToField ==
    /\ returned = NotCalled
    /\ returned' = [ type  |-> ReturnType(field),
                     value |-> ColorToField(color, field),
                     other |-> ColorToField(other, field) ]
    /\ UNCHANGED << controller, keys, switches, pc, links, li, idx, dictLen,
                    todoN, setLive, setChanged, nb, result, failures, histVars,
                    napp, color, other, field >>

\* The codec alone: the arguments are drawn, the function is applied.
InitCodec ==
    /\ EmptyTracker
    /\ napp = "running"
    /\ color \in Colors
    /\ other \in Colors
    /\ field \in Fields
    /\ returned = NotCalled

NextCodec == CallColorToField

SpecCodec == InitCodec /\ [][NextCodec]_vars

\* Two topology events, each handled by its own thread (listen_to runs a
\* handler per event), both with S1 and S2 in the registry and with links
\* among them.
ConcRegistries == { <<S1, S2>> }

ConcLinkLists ==
    { ls \in LinkLists :
        \A i \in DOMAIN ls : Len(ls[i].target) >= 9 =>
            SubSeq(ls[i].target, 1, 8) \in {S1, S2} }

NextConc ==
    \E t \in Threads :
        \/ /\ result[t] = NoResult
           /\ TopologyUpdated(t, ConcRegistries, ConcLinkLists, TRUE)
        \/ ProcessLink(t, TRUE)
        \/ NextSwitch(t, TRUE)
        \/ NextNeighbor(t, TRUE)
        \/ PostFlow(t, TRUE)

SpecConc == Init /\ [][NextConc]_vars

\* ------------------------------------------------------------ claims

\* The pass of thread 1 is over.
PassOver == pc[1] = "idle" /\ result[1] # NoResult

\* The pass of thread 1 is over and update_colors returned.
PassReturned == pc[1] = "idle" /\ result[1] = Returned

\* C1: after a pass, a neighbor is a key of a switch's 'flows' only if an
\* install request for that pair was answered with a 2xx status.
InstalledOnlyAfterAck ==
    PassOver =>
        \A d \in DOMAIN switches : \A n \in DOMAIN switches[d].flows :
            <<d, n>> \in acked

\* C2: a pair whose request failed in the previous pass and whose neighbor
\* is still a neighbor in this pass is posted again by this pass.
RetriedOnNextPass ==
    PassReturned =>
        \A p \in failedPrev :
            p[2] \in switches[p[1]].neighbors => p \in DOMAIN sent[1]

\* C3: no install request is posted for a pair that was acknowledged with
\* a 2xx status before.
NoInstallAfterAck == resent = {}

\* C3, witness: a later pass comes to a neighbor whose pair was acknowledged.
AckedPairMetAgain ==
    /\ pc[1] = "neighbors"
    /\ \E n \in todoN[1] : <<Cur(1), n>> \in acked

\* C4: a pass that gets the registry and the links of the pass before it
\* posts no install request.
SecondRunPostsNothing == repeat => DOMAIN sent[1] = {}

\* C5: whether the requests of a pass succeed, are rejected or raise, every
\* pair that was pending when the install loop began has been posted when
\* the pass is over.
EveryPendingPairPosted ==
    ( PassOver /\ result[1].exc \in {"returned", "ConnectionError"} ) =>
        pending \subseteq DOMAIN sent[1]

\* C6: no switch is in its own neighbors.
NoSelfNeighbor ==
    \A d \in DOMAIN switches : d \notin switches[d].neighbors

\* C7: a link to a switch without record does not abort the pass.
UnknownSwitchSkipped ==
    ~( result[1].exc = "KeyError" /\ result[1].line \in {75, 76} )

\* The neighbors that the links ls give the switch d.
AdjOf(ls, d) == { p[2] : p \in { q \in Peers(ls) : q[1] = d } }

\* C8: no pair is posted by both of two passes handled concurrently, and
\* when both have returned the tracker is as one of their two serial
\* executions leaves it: the neighbors are those of the pass that ran last,
\* and there is a flow for every neighbor of either pass.
PassesSerialized ==
    /\ DOMAIN sent[1] \cap DOMAIN sent[2] = {}
    /\ ( \A t \in Threads : pc[t] = "idle" /\ result[t] = Returned ) =>
          /\ \E last \in Threads : \A d \in DOMAIN switches :
                switches[d].neighbors = AdjOf(links[last], d)
          /\ \A d \in DOMAIN switches :
                DOMAIN switches[d].flows =
                    AdjOf(links[1], d) \cup AdjOf(links[2], d)

\* The integer that the hex digits of octets 3 to 8 of a DPID spell.
ExpectedColor(dpid) ==
    ((((dpid[3] * 256 + dpid[4]) * 256 + dpid[5]) * 256 + dpid[6]) * 256
        + dpid[7]) * 256 + dpid[8]

\* C9: the color of every record is the integer spelled by the hex digits of
\* its DPID after the first four, whatever passes have run since the record
\* was made.
ColorStable ==
    \A d \in DOMAIN switches : switches[d].color = ExpectedColor(d)

\* C9, witness: S3 has a flow from an earlier pass and was reset by a later
\* one, and its color is 0x100.
ColorKeptAcrossPasses ==
    /\ PassReturned
    /\ S3 \in DOMAIN switches
    /\ DOMAIN switches[S3].flows # {}
    /\ switches[S3].neighbors = {}
    /\ switches[S3].color = 256

\* C10: when a pass no longer reports the link between two known switches
\* that were neighbors, after the pass neither is a neighbor of the other,
\* and every entry their 'flows' had before the pass is still there,
\* unchanged.
NeighborLost ==
    PassOver =>
        \A p \in DOMAIN lost :
            /\ p[2] \notin switches[p[1]].neighbors
            /\ p[1] \notin switches[p[2]].neighbors
            /\ \A n \in DOMAIN lost[p].a :
                  /\ n \in DOMAIN switches[p[1]].flows
                  /\ switches[p[1]].flows[n] = lost[p].a[n]
            /\ \A n \in DOMAIN lost[p].b :
                  /\ n \in DOMAIN switches[p[2]].flows
                  /\ switches[p[2]].flows[n] = lost[p].b[n]

\* C10, witness: the link S1-S2 is gone after both flows were installed.
LinkGoneFlowsKept ==
    /\ PassReturned
    /\ <<S1, S2>> \in DOMAIN lost
    /\ S2 \in DOMAIN lost[<<S1, S2>>].a
    /\ S1 \in DOMAIN lost[<<S1, S2>>].b

\* C11: setup does not end with an error when the topology cannot be
\* fetched: the NApp comes to run, with the empty tracker, and handles the
\* topology events that follow.
StartupSurvivesFetchFailure ==
    ~( napp = "failed" /\ result[1].line = 39 )

\* color_to_field has returned.
Called == returned.type # "nothing"

\* Byte k of a color, byte 0 the lowest.
RECURSIVE ByteAt(_, _)
ByteAt(c, k) == IF k = 0 THEN c % 256 ELSE ByteAt(c \div 256, k - 1)

\* The six bytes of the low 48 bits of a color, highest first, with every
\* 00 byte read as ee.
FixedBytes(c) ==
    [i \in 1..6 |-> IF ByteAt(c, 6 - i) = 0 THEN 238 ELSE ByteAt(c, 6 - i)]

\* C12: for 'dl_src' color_to_field returns the integer whose six big-endian
\* bytes are the low 48 bits of the color with 00 turned into ee; for the
\* color 300 that integer is 0xeeeeeeee012c.
MacIsInteger ==
    ( Called /\ field = "dl_src" ) =>
        /\ returned.type = "int"
        /\ [i \in 1..6 |-> ByteAt(returned.value, 6 - i)] = FixedBytes(color)
        /\ color = 300 =>
              [i \in 1..6 |-> ByteAt(returned.value, 6 - i)]
                  = <<238, 238, 238, 238, 1, 44>>

\* The field names color_to_field has a branch for.
NamedFields ==
    { "dl_src", "dl_dst", "nw_src", "nw_dst", "in_port", "dl_vlan", "tp_src",
      "tp_dst", "nw_tos", "nw_proto" }

\* C13: for a field name other than the MAC, IPv4, two-byte and one-byte
\* names color_to_field returns an integer, the color modulo 256, and never
\* None.
FallbackMasksToByte ==
    ( Called /\ field \notin NamedFields ) =>
        /\ returned.type = "int"
        /\ returned.value = color % 256

\* str.split(sep)
RECURSIVE Split(_, _)
Split(str, sep) ==
    IF str = <<>> THEN << <<>> >>
    ELSE LET rest == Split(Tail(str), sep)
         IN  IF Head(str) = sep THEN << <<>> >> \o rest
             ELSE << <<Head(str)>> \o rest[1] >> \o Tail(rest)

\* The number a string of decimal digits spells.
RECURSIVE ParseDec(_)
ParseDec(str) ==
    IF str = <<>> THEN 0
    ELSE 10 * ParseDec(SubSeq(str, 1, Len(str) - 1))
           + (CHOOSE d \in 0..9 : DecChars[d + 1] = str[Len(str)])

\* A string is the decimal numeral of b: digits only, no leading zero.
IsDecimalOf(str, b) ==
    /\ str # <<>>
    /\ \A i \in DOMAIN str : \E d \in 0..9 : DecChars[d + 1] = str[i]
    /\ Len(str) > 1 => str[1] # "0"
    /\ ParseDec(str) = b

\* C14: the two-byte fields get the color modulo 2^16, the one-byte fields
\* the color modulo 2^8, and the IPv4 fields the dot-decimal rendering of
\* the four big-endian bytes of the color modulo 2^32; 300 stays 300 and
\* 0x10300 becomes 0x0300 in a two-byte field.
MaskedToFieldWidth ==
    Called =>
        /\ field \in {"in_port", "dl_vlan", "tp_src", "tp_dst"} =>
              /\ returned.type = "int"
              /\ returned.value \in 0..65535
              /\ (color - returned.value) % 65536 = 0
              /\ color = 300 => returned.value = 300
              /\ color = 66304 => returned.value = 768
        /\ field \in {"nw_tos", "nw_proto"} =>
              /\ returned.type = "int"
              /\ returned.value \in 0..255
              /\ (color - returned.value) % 256 = 0
        /\ field \in {"nw_src", "nw_dst"} =>
              /\ returned.type = "str"
              /\ LET parts == Split(returned.value, ".")
                 IN  /\ Len(parts) = 4
                     /\ \A i \in 1..4 :
                           IsDecimalOf(parts[i], ByteAt(color, 4 - i))

\* C14, witness: 0x10300 was encoded for a two-byte field and came out as
\* 0x0300.
MaskedVectorsEncoded ==
    /\ Called
    /\ color = 66304
    /\ field = "tp_dst"
    /\ returned.value = 768

\* The number a string of lowercase hex digits spells.
RECURSIVE ParseHexStr(_)
ParseHexStr(str) ==
    IF str = <<>> THEN 0
    ELSE 16 * ParseHexStr(SubSeq(str, 1, Len(str) - 1))
           + (CHOOSE d \in 0..15 : HexChars[d + 1] = str[Len(str)])

\* A string is a pair of lowercase hex digits.
IsHexPair(str) ==
    /\ Len(str) = 2
    /\ \A i \in 1..2 : \E d \in 0..15 : HexChars[d + 1] = str[i]

MalformedLinkSkipped ==
    [][ ( /\ pc[1] = "links"
          /\ li[1] < Len(links[1])
          /\ \/ Len(links[1][li[1] + 1].source) < 9
             \/ Len(links[1][li[1] + 1].target) < 9 )
        => ( /\ switches' = switches
             /\ keys' = keys
             /\ pc'[1] = "links"
             /\ li'[1] = li[1] + 1
             /\ links'[1] = links[1]
             /\ result'[1] = NoResult ) ]_vars

\* C16, witness: the first link of the pass was malformed, and the second
\* link, S1-S2, has been added.
LinkAfterMalformedAdded ==
    /\ pc[1] = "links"
    /\ li[1] = 2
    /\ Len(links[1][1].source) < 9
    /\ S2 \in switches[S1].neighbors
    /\ S1 \in switches[S2].neighbors

\* C17: after a pass, the neighbors of every record, the records of switches
\* that left the controller's registry included, are exactly the peers that
\* the links of that pass give the switch.
NeighborsReplacedWholesale ==
    PassReturned =>
        \A d \in DOMAIN switches :
            switches[d].neighbors = AdjOf(links[1], d)

\* C18: the request posted to switch S for its neighbor N carries a flow
\* whose match has, in the configured field, the encoding of the color in
\* N's record, not of S's own color, with priority 50000 and one output
\* action to port 65533, the controller port.
FlowCarriesNeighborColor ==
    pc[1] = "post" =>
        LET S == Cur(1)
            N == nb[1]
            flow == switches[S].flows[N]
        IN  /\ N \in switches[S].neighbors
            /\ flow.match_field = COLOR_FIELD
            /\ flow.match_value = ColorToField(switches[N].color, COLOR_FIELD)
            /\ S # N => flow.match_value
                           # ColorToField(switches[S].color, COLOR_FIELD)
            /\ flow.priority = 50000
            /\ flow.out_port = 65533

\* C18, witness: the request to S1 for its neighbor S3 is about to be
\* posted, with the MAC of S3's color 0x100.
FlowForS3AtS1 ==
    /\ pc[1] = "post"
    /\ Cur(1) = S1
    /\ nb[1] = S3
    /\ switches[S1].flows[S3].match_value
          = << "e", "e", ":", "e", "e", ":", "e", "e", ":",
               "e", "e", ":", "0", "1", ":", "e", "e" >>

\* C19: after a pass that returned, B is a neighbor of A exactly when A is a
\* neighbor of B, for all records A and B.
NeighborsSymmetric ==
    PassReturned =>
        \A a \in DOMAIN switches, b \in DOMAIN switches :
            (b \in switches[a].neighbors) <=> (a \in switches[b].neighbors)

\* C20, as claimed: two different colors get different values in a MAC
\* field.
DistinctColorsDistinctMacs ==
    ( Called /\ field \in {"dl_src", "dl_dst"} /\ color # other ) =>
        returned.value # returned.other

\* C20, amended: two colors get the same value in a MAC field exactly when
\* their six low bytes are the same once every 00 byte is read as ee; two
\* colors that differ in a byte otherwise get different values.
MacsEqualUpToFixup ==
    ( Called /\ field \in {"dl_src", "dl_dst"} ) =>
        ( (returned.value = returned.other)
            <=> (FixedBytes(color) = FixedBytes(other)) )

\* C20, witness: two different colors were encoded for a MAC field, and got
\* different values.
TwoColorsEncodedAsMac ==
    /\ Called
    /\ field = "dl_src"
    /\ color = 300
    /\ other = 66304
    /\ returned.value # returned.other

====
